---- MODULE Spec2Model ----
(***************************************************************************)
(* Resilience engine of the AI Video Explorer pages:                       *)
(*   - SelfHealingService (circuit-breaker version): resilientApiCall with *)
(*     its single circuit breaker and its in-memory TTL cache;             *)
(*   - APIManager: makeRequest with one circuit breaker per URL, wrapped   *)
(*     around RetryManager.executeWithRetry.                               *)
(* Time is a discrete clock `now` (Date.now()); durations are in ticks.    *)
(***************************************************************************)
EXTENDS Integers, Sequences, FiniteSets, TLC

\* ---------------------------------------------------------------- bounds
MaxTime == 4                  \* the clock stops advancing here
MaxThreshold == 3             \* circuitBreakerThreshold ranges over 1..MaxThreshold
MaxFetches == 4               \* fetches issued in one run, per component
MaxFailedCalls == 4           \* failedCalls counts up to here
CircuitBreakerTimeout == 1    \* config.circuitBreakerTimeout, in ticks
CacheExpiryTime == 2          \* config.cacheExpiryTime, in ticks
MaxAttempts == 4              \* options.maxAttempts ranges over 1..MaxAttempts
MaxProbes == 3                \* at most MaxProbes health checks are registered
MaxRecoveries == 2            \* direct calls of recoverComponent that are followed
MaxDurableAge == 1            \* the 24 hours of the durable tier, in ticks
MaxTtl == MaxDurableAge + 2   \* the longest ttl given to CacheManager.set, in ticks

\* ------------------------------------------------------ program constants
RetryAttempts == 3            \* config.retryAttempts
TrialThreshold == 2           \* successes that close a half-open APIManager breaker

Urls == {"u1", "u2"}
\* an options object is represented by the set of its own property names
EmptyOptions == {}
Options == {EmptyOptions, {"method"}}
Callers == {"c1", "c2", "c3"}

VARIABLES
    engine,           \* which of the two engines the page has loaded
    now,              \* Date.now()
    threshold,        \* config.circuitBreakerThreshold
    \* SelfHealingService
    circuitBreaker,   \* this.circuitBreaker
    cache,            \* this.cache
    call,             \* the resilientApiCall invocations, one per caller
    fetchCount,       \* fetches issued by resilientApiCall
    halfOpenSuccesses,\* history: successes recorded since the breaker last left OPEN
    failedCalls,      \* history: calls completed in a row with every fetch failed
    failureRun,       \* history: failures recorded in a row from CLOSED/0, -1 = none
    \* APIManager and its RetryManager
    circuitBreakers,  \* this.circuitBreakers, a Map keyed by URL
    activeRetries,    \* retryManager.activeRetries, keyed by operationId
    request,          \* the makeRequest invocations, one per caller
    apiFetchCount,    \* fetches issued by makeRequest
    trialSuccesses,   \* history, per URL: successes since the breaker last left OPEN
    apiFailureRun,    \* history, per URL: as failureRun
    \* RetryManager.executeWithRetry called on its own
    retry,            \* the executeWithRetry invocation
    invocations,      \* history: the attempt numbers the operation was called with
    sleeps,           \* history: the delays passed to sleep()
    \* HealthMonitor and the recovery of SelfHealingFramework
    checks,           \* healthMonitor.checks, the names in registration order
    autoRecovery,     \* config.autoRecovery
    health,           \* the performHealthCheck invocation and its report
    probed,           \* history: the checks invoked by the current health check
    recovered,        \* history: the components recoverComponent was called for
    \* CacheManager
    cmCache,          \* this.cache, the volatile tier
    cmStorage,        \* localStorage under the prefix sh_cache_, the durable tier
    storageAvailable, \* this.storage is not null
    cmCall,           \* the last call of a CacheManager method and its outcome
    \* ConfigManager
    cfgCache,         \* this.cache.get('main')
    watchers,         \* this.watchers.get('main'), the callbacks registered
    configWatcher,    \* whether init() has run and has installed the poll timer
    cfgCall,          \* the init(), recover() or poll that is running or ran last
    notified          \* history: the callbacks that call invoked, with the value

shVars == <<circuitBreaker, cache, call, fetchCount,
            halfOpenSuccesses, failedCalls, failureRun>>
apiVars == <<circuitBreakers, activeRetries, request, apiFetchCount,
             trialSuccesses, apiFailureRun>>
rmVars == <<retry, invocations, sleeps>>
hmVars == <<checks, autoRecovery, health, probed, recovered>>
cmVars == <<cmCache, cmStorage, storageAvailable, cmCall>>
cfgVars == <<cfgCache, watchers, configWatcher, cfgCall, notified>>
vars == <<engine, now, threshold, shVars, apiVars, rmVars, hmVars, cmVars,
          cfgVars>>

\* ===================================================== SelfHealingService
NoEntry == [absent |-> TRUE]

\* the validated body the server returns for a request
Payload(url, options) == [items |-> <<url, options>>]

\* the empty but valid structure of handleApiFallback
FallbackResult == [items |-> <<>>, error |-> [type |-> "fallback"]]

JSONStringify(options) == IF options = {} THEN "{}" ELSE "{\"method\":1}"

\* `${url}${JSON.stringify(options)}`; the concatenation is kept as a pair
getCacheKey(url, options) == <<url, JSONStringify(options)>>

CacheKeys == {getCacheKey(u, o) : u \in Urls, o \in Options}

setCache(c, key, data) ==
    [c EXCEPT ![key] = [data |-> data, timestamp |-> now,
                        expires |-> now + CacheExpiryTime]]

\* getFromCache returns a value and may delete the entry: the pair
\* [value, cache]; Null stands for null
Null == [null |-> TRUE]

getFromCache(c, key, allowStale) ==
    IF c[key] = NoEntry
    THEN [value |-> Null, cache |-> c]
    ELSE IF ~allowStale /\ now > c[key].expires
         THEN [value |-> Null, cache |-> [c EXCEPT ![key] = NoEntry]]
         ELSE [value |-> c[key].data, cache |-> c]

\* this.circuitBreaker: the one breaker, consulted whatever the URL
BreakerConsultedFor(cb, url) == cb

\* variant: an open breaker lets the call through already at nextAttemptTime
canProceedAtNextAttemptTime(cb) ==
    IF cb.state = "open"
    THEN IF now >= cb.nextAttemptTime
         THEN [proceed |-> TRUE, cb |-> [cb EXCEPT !.state = "half-open"]]
         ELSE [proceed |-> FALSE, cb |-> cb]
    ELSE [proceed |-> TRUE, cb |-> cb]

canProceedWithApiCall(cb) ==
    CASE cb.state = "closed" -> [proceed |-> TRUE, cb |-> cb]
      [] cb.state = "open" ->
            IF now > cb.nextAttemptTime
            THEN [proceed |-> TRUE, cb |-> [cb EXCEPT !.state = "half-open"]]
            ELSE [proceed |-> FALSE, cb |-> cb]
      [] OTHER -> [proceed |-> TRUE, cb |-> cb]

\* variant: a success leaves a half-open breaker half-open
recordApiSuccessKeepsHalfOpen(cb) == cb

recordApiSuccess(cb) ==
    IF cb.state = "half-open"
    THEN [cb EXCEPT !.state = "closed", !.failureCount = 0]
    ELSE cb

recordApiFailure(cb) ==
    LET counted == [cb EXCEPT !.failureCount = @ + 1, !.lastFailureTime = now]
    IN  IF counted.failureCount >= threshold
        THEN [counted EXCEPT !.state = "open",
                             !.nextAttemptTime = now + CircuitBreakerTimeout]
        ELSE counted

\* whether recordApiFailure() on the breaker cb takes the branch that
\* increments metrics.circuitBreakerTrips and dispatches
\* 'self-healing:circuit-breaker-opened'
DispatchesOpened(cb) == cb.failureCount + 1 >= threshold

\* variant: the empty structure is returned without its error tag
handleApiFallbackUntagged(c, url) ==
    LET staleData == getFromCache(c, getCacheKey(url, EmptyOptions), TRUE).value
    IN  IF staleData # Null THEN staleData ELSE [items |-> <<>>]

\* handleApiFallback(url, error): stale entry of getCacheKey(url), else the
\* empty structure
handleApiFallback(c, url) ==
    LET staleData == getFromCache(c, getCacheKey(url, EmptyOptions), TRUE).value
    IN  IF staleData # Null THEN staleData ELSE FallbackResult

\* whether handleApiFallback finds an entry to serve
HasStale(c, url) == c[getCacheKey(url, EmptyOptions)] # NoEntry

\* a resilientApiCall invocation.  pc, url, options, attempt and result are
\* the call's own state; the rest is history:
\*   path     how it ended: "rejected" by the gate, "exhausted" attempts,
\*            cache "hit", or "fetched"
\*   served   what it returned: "fresh" data, "stale" cache data, or the
\*            "empty" structure
\*   expiredAtStart  the data of the expired entry the cache held for this
\*            request when the call started, Null if none
\* let lastError; before the first catch
NoError == "undefined"

\* what a failed attempt of resilientApiCall throws: `HTTP error! status: 4xx`
\* for a client error, anything else otherwise
ApiErrors == {"HTTP 4xx", "other"}

\* lastError is the local of the retry loop, kept while the loop runs
IdleCall == [pc |-> "idle", url |-> "u1", options |-> EmptyOptions,
             attempt |-> 0, result |-> Null, path |-> "none",
             served |-> "none", expiredAtStart |-> Null,
             lastError |-> NoError]

ExpiredData(c, key) ==
    IF c[key] # NoEntry /\ now > c[key].expires THEN c[key].data ELSE Null

\* the call record as completed through handleApiFallback
FellBack(rec, how) ==
    [rec EXCEPT !.pc = "done", !.path = how,
                !.result = handleApiFallback(cache, rec.url),
                !.served = IF HasStale(cache, rec.url) THEN "stale" ELSE "empty"]

\* history bookkeeping -----------------------------------------------------
\* failures recorded in a row since the breaker was CLOSED with failureCount 0
NextRun(run, failed, cb2, cb1) ==
    IF failed THEN (IF run >= 0 THEN run + 1 ELSE -1)
    ELSE IF cb2.state = "closed" /\ cb2.failureCount = 0 THEN 0
    ELSE IF cb2 = cb1 THEN run
    ELSE -1

\* calls completed in a row with every fetch failed, counted up to ScenarioCalls
CountFailedCall(n) == IF n < MaxFailedCalls THEN n + 1 ELSE n

\* successes recorded since the breaker last went OPEN -> HALF_OPEN
NextHalfOpenSuccesses(n, cb0, cb1, succeeded) ==
    LET entered == IF cb0.state = "open" /\ cb1.state = "half-open" THEN 0 ELSE n
    IN  IF succeeded /\ cb1.state = "half-open" THEN entered + 1 ELSE entered

\* one pass of the try block of the retry loop up to its first await, for the
\* call record rec and the breaker cb1 left by the gate: cache look-up, then
\* either a cache hit (return) or the fetch is issued
TryBlock(c, rec, cb1) ==
    LET key  == getCacheKey(rec.url, rec.options)
        look == getFromCache(cache, key, FALSE)
        hit  == look.value # Null
    IN  /\ cache' = look.cache
        /\ halfOpenSuccesses' =
               NextHalfOpenSuccesses(halfOpenSuccesses, circuitBreaker, cb1, hit)
        /\ IF hit
           THEN /\ circuitBreaker' = recordApiSuccess(cb1)
                /\ call' = [call EXCEPT ![c] = [rec EXCEPT !.pc = "done",
                                                           !.result = look.value,
                                                           !.path = "hit",
                                                           !.served = "fresh",
                                                           !.lastError = NoError]]
                /\ fetchCount' = fetchCount
                /\ failedCalls' = 0
           ELSE /\ fetchCount < MaxFetches
                /\ circuitBreaker' = cb1
                /\ call' = [call EXCEPT ![c] = [rec EXCEPT !.pc = "fetching"]]
                /\ fetchCount' = fetchCount + 1
                /\ failedCalls' = failedCalls
        /\ failureRun' = NextRun(failureRun, FALSE, circuitBreaker', circuitBreaker)

\* resilientApiCall(url, options) up to its first await
ResilientApiCall(c, url, options) ==
    /\ call[c].pc = "idle"
    /\ LET gate == canProceedWithApiCall(circuitBreaker)
       IN  IF ~gate.proceed
           THEN /\ call' = [call EXCEPT ![c] =
                       FellBack([IdleCall EXCEPT !.url = url, !.options = options],
                                "rejected")]
                /\ failedCalls' = CountFailedCall(failedCalls)
                /\ UNCHANGED <<circuitBreaker, cache, fetchCount,
                               halfOpenSuccesses, failureRun>>
           ELSE TryBlock(c, [IdleCall EXCEPT !.url = url, !.options = options,
                                 !.attempt = 1,
                                 !.expiredAtStart =
                                     ExpiredData(cache, getCacheKey(url, options))],
                         gate.cb)
    /\ UNCHANGED <<cfgVars, hmVars, cmVars, engine, now, threshold, rmVars, apiVars>>

\* the awaited fetch (and response.json()) of attempt call[c].attempt settles;
\* outcome "ok" = the response is OK and validateApiResponse accepts its body,
\* otherwise the error thrown into the catch block
FetchSettles(c, outcome) ==
    /\ call[c].pc = "fetching"
    /\ IF outcome = "ok"
       THEN LET data == Payload(call[c].url, call[c].options)
                key  == getCacheKey(call[c].url, call[c].options)
            IN  /\ cache' = setCache(cache, key, data)
                /\ circuitBreaker' = recordApiSuccess(circuitBreaker)
                /\ call' = [call EXCEPT ![c].pc = "done", ![c].result = data,
                                        ![c].path = "fetched",
                                        ![c].served = "fresh",
                                        ![c].lastError = NoError]
                /\ halfOpenSuccesses' = NextHalfOpenSuccesses(halfOpenSuccesses,
                                            circuitBreaker, circuitBreaker, TRUE)
                /\ failedCalls' = 0
                /\ failureRun' = NextRun(failureRun, FALSE, circuitBreaker', circuitBreaker)
       ELSE /\ circuitBreaker' = recordApiFailure(circuitBreaker)
            /\ IF call[c].attempt = RetryAttempts
               THEN /\ call' = [call EXCEPT ![c] =
                           FellBack([call[c] EXCEPT !.lastError = NoError],
                                    "exhausted")]
                    /\ failedCalls' = CountFailedCall(failedCalls)
               ELSE /\ call' = [call EXCEPT ![c].pc = "waiting",
                                            ![c].lastError = outcome]
                    /\ failedCalls' = failedCalls
            /\ failureRun' = NextRun(failureRun, TRUE, circuitBreaker', circuitBreaker)
            /\ UNCHANGED <<cache, halfOpenSuccesses>>
    /\ UNCHANGED <<cfgVars, hmVars, cmVars, engine, now, threshold, rmVars, apiVars, fetchCount>>

\* await this.wait(delay) ends: apiRetries++, next pass of the loop
WaitEnds(c) ==
    /\ call[c].pc = "waiting"
    /\ TryBlock(c, [call[c] EXCEPT !.attempt = @ + 1], circuitBreaker)
    /\ UNCHANGED <<cfgVars, hmVars, cmVars, engine, now, threshold, rmVars, apiVars>>

\* the caller takes the result; the caller may call again
CallReturns(c) ==
    /\ call[c].pc = "done"
    /\ call' = [call EXCEPT ![c] = IdleCall]
    /\ UNCHANGED <<cfgVars, hmVars, cmVars, engine, now, threshold, rmVars, apiVars, circuitBreaker, cache, fetchCount,
                   halfOpenSuccesses, failedCalls, failureRun>>

\* the setInterval callback of setupCircuitBreakerMonitoring
CircuitBreakerMonitor ==
    /\ IF /\ circuitBreaker.state = "open"
          /\ now - circuitBreaker.lastFailureTime > CircuitBreakerTimeout * 2
       THEN /\ circuitBreaker' = [circuitBreaker EXCEPT !.state = "closed",
                                                        !.failureCount = 0]
            /\ failedCalls' = 0
       ELSE UNCHANGED <<circuitBreaker, failedCalls>>
    /\ failureRun' = NextRun(failureRun, FALSE, circuitBreaker', circuitBreaker)
    /\ UNCHANGED <<cfgVars, hmVars, cmVars, engine, now, threshold, rmVars, apiVars, cache, call, fetchCount,
                   halfOpenSuccesses>>

\* cleanupCache(): every entry with now > expires is deleted
CleanupCache ==
    /\ cache' = [k \in CacheKeys |->
                    IF cache[k] # NoEntry /\ now > cache[k].expires
                    THEN NoEntry ELSE cache[k]]
    /\ UNCHANGED <<cfgVars, hmVars, cmVars, engine, now, threshold, rmVars, apiVars, circuitBreaker, call, fetchCount,
                   halfOpenSuccesses, failedCalls, failureRun>>

\* the clock advances
Tick ==
    /\ now < MaxTime
    /\ now' = now + 1
    /\ UNCHANGED <<cfgVars, hmVars, cmVars, engine, threshold, shVars, apiVars, rmVars>>

\* ============================================================ APIManager
NoBreaker == [absent |-> TRUE]
NoRetry == [absent |-> TRUE]

\* operationId: `api_${url}`, kept as a pair
OperationId(url) == <<"api_", url>>
OperationIds == {OperationId(u) : u \in Urls}

\* the key under which getCircuitBreaker(undefined) files a breaker
UndefinedUrl == "undefined"
BreakerKeys == Urls \cup {UndefinedUrl}

NewBreaker == [state |-> "closed", failureCount |-> 0,
               lastFailureTime |-> 0, successCount |-> 0]

\* getCircuitBreaker(url): the Map after the lazy creation
getCircuitBreaker(cbs, url) ==
    IF cbs[url] = NoBreaker THEN [cbs EXCEPT ![url] = NewBreaker] ELSE cbs

\* variant: the breaker opens only above the threshold
recordFailureAboveThreshold(cbs, url) ==
    LET created == getCircuitBreaker(cbs, url)
        counted == [created[url] EXCEPT !.failureCount = @ + 1,
                                        !.lastFailureTime = now]
    IN  [created EXCEPT ![url] =
            IF counted.failureCount > threshold
            THEN [counted EXCEPT !.state = "open"]
            ELSE counted]

recordFailure(cbs, url) ==
    LET created == getCircuitBreaker(cbs, url)
        counted == [created[url] EXCEPT !.failureCount = @ + 1,
                                        !.lastFailureTime = now]
    IN  [created EXCEPT ![url] =
            IF counted.failureCount >= threshold
            THEN [counted EXCEPT !.state = "open"]
            ELSE counted]

\* variant: a success on a closed breaker clears the count
DecayedToZero(failureCount) == 0

\* Math.max(0, failureCount - 1)
DecayedFailureCount(failureCount) ==
    IF failureCount - 1 > 0 THEN failureCount - 1 ELSE 0

\* variant: the decrement without Math.max
resetCircuitBreakerNoFloor(cbs, url) ==
    LET created == getCircuitBreaker(cbs, url)
        cb == created[url]
    IN  [created EXCEPT ![url] =
            IF cb.state = "half-open"
            THEN IF cb.successCount + 1 >= TrialThreshold
                 THEN [cb EXCEPT !.state = "closed", !.failureCount = 0,
                                 !.successCount = 0]
                 ELSE [cb EXCEPT !.successCount = @ + 1]
            ELSE IF cb.state = "closed"
                 THEN [cb EXCEPT !.failureCount = @ - 1]
                 ELSE cb]

resetCircuitBreaker(cbs, url) ==
    LET created == getCircuitBreaker(cbs, url)
        cb == created[url]
    IN  [created EXCEPT ![url] =
            IF cb.state = "half-open"
            THEN IF cb.successCount + 1 >= TrialThreshold
                 THEN [cb EXCEPT !.state = "closed", !.failureCount = 0,
                                 !.successCount = 0]
                 ELSE [cb EXCEPT !.successCount = @ + 1]
            ELSE IF cb.state = "closed"
                 THEN [cb EXCEPT !.failureCount = DecayedFailureCount(@)]
                 ELSE cb]

\* variant: a rejection by the open breaker is counted as a failure
GateCountingRejections(cbs, url) ==
    LET created == getCircuitBreaker(cbs, url)
        cb == created[url]
    IN  IF cb.state = "open"
        THEN IF now - cb.lastFailureTime > CircuitBreakerTimeout
             THEN [throws |-> FALSE,
                   cbs |-> [created EXCEPT ![url].state = "half-open"]]
             ELSE [throws |-> TRUE,
                   cbs |-> [created EXCEPT ![url].failureCount = @ + 1,
                                           ![url].lastFailureTime = now]]
        ELSE [throws |-> FALSE, cbs |-> created]

\* the gate at the head of makeRequest: the breaker of url after the check and
\* whether the call throws 'Circuit breaker is open'
Gate(cbs, url) ==
    LET created == getCircuitBreaker(cbs, url)
        cb == created[url]
    IN  IF cb.state = "open"
        THEN IF now - cb.lastFailureTime > CircuitBreakerTimeout
             THEN [throws |-> FALSE,
                   cbs |-> [created EXCEPT ![url].state = "half-open"]]
             ELSE [throws |-> TRUE, cbs |-> created]
        ELSE [throws |-> FALSE, cbs |-> created]

\* retryCondition of makeRequest: no retry for 'HTTP 4..' errors
retryCondition(error) == error # "HTTP 4xx"

FetchErrors == {"HTTP 4xx", "HTTP 5xx", "network"}

IdleRequest == [pc |-> "idle", url |-> "u1", attempt |-> 0, outcome |-> "none"]

NextApiRun(runs, url, failed, cbs2, cbs1) ==
    [u \in Urls |->
        IF u = url /\ failed THEN (IF runs[u] >= 0 THEN runs[u] + 1 ELSE -1)
        ELSE IF cbs2[u] = NoBreaker THEN runs[u]
        ELSE IF cbs2[u].state = "closed" /\ cbs2[u].failureCount = 0 THEN 0
        ELSE IF cbs2[u] = cbs1[u] THEN runs[u]
        ELSE -1]

NextTrialSuccesses(n, url, cbs0, cbs1, succeeded) ==
    LET entered == IF cbs0[url] # NoBreaker /\ cbs0[url].state = "open"
                      /\ cbs1[url].state = "half-open" THEN 0 ELSE n[url]
    IN  [n EXCEPT ![url] = IF succeeded /\ cbs1[url].state = "half-open"
                           THEN entered + 1 ELSE entered]

\* makeRequest(url) up to the first await: the gate, then executeWithRetry
\* starts attempt 1 and the operation issues its fetch
MakeRequest(r, url) ==
    /\ request[r].pc = "idle"
    /\ LET gate == Gate(circuitBreakers, url)
       IN  /\ circuitBreakers' = gate.cbs
           /\ trialSuccesses' = NextTrialSuccesses(trialSuccesses, url,
                                    circuitBreakers, gate.cbs, FALSE)
           /\ IF gate.throws
              THEN /\ request' = [request EXCEPT ![r] =
                          [IdleRequest EXCEPT !.pc = "done", !.url = url,
                                              !.outcome = "thrown: breaker open"]]
                   /\ apiFetchCount' = apiFetchCount
              ELSE /\ apiFetchCount < MaxFetches
                   /\ request' = [request EXCEPT ![r] =
                          [IdleRequest EXCEPT !.pc = "fetching", !.url = url,
                                              !.attempt = 1]]
                   /\ apiFetchCount' = apiFetchCount + 1
    /\ apiFailureRun' = NextApiRun(apiFailureRun, url, FALSE,
                                   circuitBreakers', circuitBreakers)
    /\ UNCHANGED <<cfgVars, hmVars, cmVars, engine, now, threshold, rmVars, shVars, activeRetries>>

\* the awaited fetch of the current attempt settles with an OK response
ApiFetchSucceeds(r) ==
    /\ request[r].pc = "fetching"
    /\ LET url == request[r].url
       IN  /\ activeRetries' = [activeRetries EXCEPT ![OperationId(url)] = NoRetry]
           /\ circuitBreakers' = resetCircuitBreaker(circuitBreakers, url)
           /\ request' = [request EXCEPT ![r].pc = "done",
                                         ![r].outcome = "response"]
           /\ trialSuccesses' = NextTrialSuccesses(trialSuccesses, url,
                                    circuitBreakers, circuitBreakers, TRUE)
           /\ apiFailureRun' = NextApiRun(apiFailureRun, url, FALSE,
                                          circuitBreakers', circuitBreakers)
    /\ UNCHANGED <<cfgVars, hmVars, cmVars, engine, now, threshold, rmVars, shVars, apiFetchCount>>

\* the awaited fetch of the current attempt fails (not-OK response, network
\* error or abort by the timeout)
ApiFetchFails(r, error) ==
    /\ request[r].pc = "fetching"
    /\ LET url == request[r].url
           attempt == request[r].attempt
       IN  /\ activeRetries' = [activeRetries EXCEPT ![OperationId(url)] =
                                   [attempt |-> attempt, lastError |-> error]]
           /\ IF attempt = RetryAttempts \/ ~retryCondition(error)
              THEN /\ circuitBreakers' = recordFailure(circuitBreakers, url)
                   /\ request' = [request EXCEPT ![r].pc = "done",
                                      ![r].outcome = "thrown: attempts failed"]
                   /\ apiFailureRun' = NextApiRun(apiFailureRun, url, TRUE,
                                           circuitBreakers', circuitBreakers)
              ELSE /\ request' = [request EXCEPT ![r].pc = "sleeping"]
                   /\ UNCHANGED <<circuitBreakers, apiFailureRun>>
    /\ UNCHANGED <<cfgVars, hmVars, cmVars, engine, now, threshold, rmVars, shVars, apiFetchCount, trialSuccesses>>

\* await this.sleep(delay) ends: the next attempt issues its fetch
SleepEnds(r) ==
    /\ request[r].pc = "sleeping"
    /\ apiFetchCount < MaxFetches
    /\ request' = [request EXCEPT ![r].pc = "fetching", ![r].attempt = @ + 1]
    /\ apiFetchCount' = apiFetchCount + 1
    /\ UNCHANGED <<cfgVars, hmVars, cmVars, engine, now, threshold, rmVars, shVars, circuitBreakers, activeRetries,
                   trialSuccesses, apiFailureRun>>

RequestReturns(r) ==
    /\ request[r].pc = "done"
    /\ request' = [request EXCEPT ![r] = IdleRequest]
    /\ UNCHANGED <<cfgVars, hmVars, cmVars, engine, now, threshold, rmVars, shVars, circuitBreakers, activeRetries,
                   apiFetchCount, trialSuccesses, apiFailureRun>>

ResetAllCircuitBreakers ==
    /\ circuitBreakers' = [u \in BreakerKeys |->
            IF circuitBreakers[u] = NoBreaker THEN NoBreaker
            ELSE [circuitBreakers[u] EXCEPT !.state = "closed",
                      !.failureCount = 0, !.successCount = 0,
                      !.lastFailureTime = 0]]
    /\ apiFailureRun' = [u \in Urls |-> 0]
    /\ UNCHANGED <<cfgVars, hmVars, cmVars, engine, now, threshold, rmVars, shVars, activeRetries, request,
                   apiFetchCount, trialSuccesses>>

\* ========================================================== RetryManager
\* executeWithRetry(operation, options) called on its own. The operation is
\* any async function of the attempt number; an error is named by its message.
OperationErrors == {"timeout", "refused"}

\* what operation(attempt) resolves with
OperationResult(attempt) == <<"result of attempt", attempt>>

\* options.operationId when the caller gives none
Undefined == <<"undefined">>

BaseDelays == {10}
Multipliers == {2, 3}

\* options.retryCondition is given by the set of errors it returns true for;
\* the default (error) => true is the whole set
RetryOptions ==
    [maxAttempts : 1..MaxAttempts, baseDelay : BaseDelays,
     backoffMultiplier : Multipliers, jitter : BOOLEAN,
     retryOn : SUBSET OperationErrors,
     operationId : {OperationId("u1"), Undefined}]

NoRetryOptions ==
    [maxAttempts |-> 1, baseDelay |-> 10, backoffMultiplier |-> 2,
     jitter |-> FALSE, retryOn |-> {}, operationId |-> Undefined]

\* cancelled: the caller has aborted the signal it holds for this call
IdleRetry == [pc |-> "idle", options |-> NoRetryOptions, attempt |-> 0,
              inFlight |-> 0, lastError |-> NoError, outcome |-> Null,
              cancelled |-> FALSE]

RECURSIVE Pow(_, _)
Pow(b, e) == IF e = 0 THEN 1 ELSE b * Pow(b, e - 1)

\* let delay = baseDelay * Math.pow(backoffMultiplier, attempt - 1)
BackoffDelayFromAttempt(options, attempt) ==
    options.baseDelay * Pow(options.backoffMultiplier, attempt)
BackoffDelay(options, attempt) ==
    options.baseDelay * Pow(options.backoffMultiplier, attempt - 1)

\* Math.random() * delay * 0.1, in whole milliseconds
Jitter(delay) == 0..(delay \div 10)

\* attempt === maxAttempts
LastAttemptPassed(options, attempt) == attempt > options.maxAttempts
LastAttempt(options, attempt) == attempt = options.maxAttempts

\* retryCondition(error), the predicate of the options
DefaultRetryCondition(options, error) == TRUE
OptionsRetryCondition(options, error) == error \in options.retryOn

\* if (attempt === maxAttempts || !retryCondition(error)) break
StopsRetrying(options, attempt, error) ==
    LastAttempt(options, attempt) \/ ~OptionsRetryCondition(options, error)

\* throw new Error(`Operation failed after ${maxAttempts} attempts. Last
\* error: ${lastError.message}`)
OperationFailed(options, lastError) ==
    [kind |-> "error", attempts |-> options.maxAttempts,
     lastError |-> lastError]

\* the call enters the loop and invokes operation(1)
ExecuteWithRetry(options) ==
    /\ retry.pc = "idle"
    /\ retry' = [retry EXCEPT !.pc = "running", !.options = options,
                              !.attempt = 1, !.inFlight = 1]
    /\ invocations' = <<1>>
    /\ sleeps' = <<>>
    /\ UNCHANGED <<cfgVars, hmVars, cmVars, engine, now, threshold, shVars, apiVars>>

\* await operation(attempt) resolves: the entry is deleted, the result returned
OperationResolves ==
    /\ retry.pc = "running"
    /\ retry' = [retry EXCEPT !.pc = "done", !.inFlight = 0,
                    !.outcome = [kind |-> "result",
                                 value |-> OperationResult(retry.attempt)]]
    /\ activeRetries' =
           IF retry.options.operationId # Undefined
           THEN [activeRetries EXCEPT ![retry.options.operationId] = NoRetry]
           ELSE activeRetries
    /\ UNCHANGED <<cfgVars, hmVars, cmVars, engine, now, threshold, shVars, circuitBreakers, request,
                   apiFetchCount, trialSuccesses, apiFailureRun,
                   invocations, sleeps>>

\* await operation(attempt) rejects: the catch block, up to the throw or the
\* call of sleep
OperationRejects(error) ==
    /\ retry.pc = "running"
    /\ activeRetries' =
           IF retry.options.operationId # Undefined
           THEN [activeRetries EXCEPT ![retry.options.operationId] =
                    [attempt |-> retry.attempt, lastError |-> error]]
           ELSE activeRetries
    /\ IF StopsRetrying(retry.options, retry.attempt, error)
       THEN /\ retry' = [retry EXCEPT !.pc = "done", !.inFlight = 0,
                            !.lastError = error,
                            !.outcome = OperationFailed(retry.options, error)]
            /\ sleeps' = sleeps
       ELSE LET delay == BackoffDelay(retry.options, retry.attempt)
            IN  /\ retry' = [retry EXCEPT !.pc = "sleeping", !.inFlight = 0,
                                          !.lastError = error]
                /\ \E j \in (IF retry.options.jitter THEN Jitter(delay)
                             ELSE {0}) :
                       sleeps' = Append(sleeps, delay + j)
    /\ UNCHANGED <<cfgVars, hmVars, cmVars, engine, now, threshold, shVars, circuitBreakers, request,
                   apiFetchCount, trialSuccesses, apiFailureRun, invocations>>

\* await this.sleep(delay) resolves: attempt++ and the next operation(attempt)
SleepResolves ==
    /\ retry.pc = "sleeping"
    /\ retry' = [retry EXCEPT !.pc = "running", !.attempt = @ + 1,
                              !.inFlight = 1]
    /\ invocations' = Append(invocations, retry.attempt + 1)
    /\ UNCHANGED <<cfgVars, hmVars, cmVars, engine, now, threshold, shVars, apiVars, sleeps>>

\* the caller has the result or the error and may call again
RetrySettled ==
    /\ retry.pc = "done"
    /\ retry' = IdleRetry
    /\ invocations' = <<>>
    /\ sleeps' = <<>>
    /\ UNCHANGED <<cfgVars, hmVars, cmVars, engine, now, threshold, shVars, apiVars>>

\* the caller aborts its AbortController while the call waits in sleep().
\* executeWithRetry destructures maxAttempts, baseDelay, backoffMultiplier,
\* jitter and retryCondition from its options and reads operationId: no
\* signal is read, and sleep() is a bare setTimeout. makeRequest passes
\* {...options, signal: controller.signal} to fetch, its own timeout signal
\* in the place of the caller's. Nothing of the call observes the abort.
CallerCancels ==
    /\ retry.pc = "sleeping"
    /\ ~retry.cancelled
    /\ retry' = [retry EXCEPT !.cancelled = TRUE]
    /\ UNCHANGED <<cfgVars, hmVars, cmVars, engine, now, threshold, shVars, apiVars,
                   invocations, sleeps>>

RmInit ==
    /\ retry = IdleRetry
    /\ invocations = <<>>
    /\ sleeps = <<>>

\* ========================================================= HealthMonitor
\* checkSystemHealth, and performHealthCheck / attemptSystemRecovery /
\* recoverComponent of SelfHealingFramework
CheckNames == {"api", "config", "cache", "performance"}

\* what an awaited check function does: it returns a result with this status,
\* or it throws
ProbeOutcomes == {"healthy", "degraded", "unhealthy", "throws"}

\* this.checks after the registrations: a Map keeps one entry per name, in
\* the order of first registration
Registrations ==
    {s \in UNION {[1..n -> CheckNames] : n \in 1..MaxProbes} :
        \A i, j \in DOMAIN s : i # j => s[i] # s[j]}

\* components[name] before the check of that name has settled
NoStatus == "none"

IdleHealth ==
    [pc |-> "idle", position |-> 0,
     components |-> [n \in CheckNames |-> NoStatus],
     threw |-> {}, overall |-> "healthy", failed |-> {}]

\* variant: a check that throws is left out of the report
ProbeResultDropsThrown(h, name, outcome) ==
    IF outcome = "throws"
    THEN [h EXCEPT !.threw = @ \cup {name}, !.overall = "unhealthy"]
    ELSE [h EXCEPT !.components[name] = outcome,
                   !.overall = IF outcome # "healthy" THEN "degraded" ELSE @]

\* the body of the loop of checkSystemHealth once checkFn() has settled
ProbeResult(h, name, outcome) ==
    IF outcome = "throws"
    THEN [h EXCEPT !.components[name] = "unhealthy",
                   !.threw = @ \cup {name}, !.overall = "unhealthy"]
    ELSE [h EXCEPT !.components[name] = outcome,
                   !.overall = IF outcome # "healthy" THEN "degraded" ELSE @]

\* if (health.overall !== 'healthy' && this.config.autoRecovery)
StartsRecovery(h) == h.overall # "healthy" /\ autoRecovery

\* variant: every component of the report is recovered
RecoveryTargetsAll(h) == checks

\* the entries of health.components that attemptSystemRecovery passes to
\* recoverComponent, in the order of Object.entries
RecoveryTargets(h) ==
    SelectSeq(checks, LAMBDA n : h.components[n] # "healthy")

\* the switch of recoverComponent: case 'api' calls resetCircuitBreaker()
\* without a url
recoverComponent(component, cbs) ==
    IF component = "api" THEN resetCircuitBreaker(cbs, UndefinedUrl) ELSE cbs

\* the recovery actions that can throw; resetCircuitBreaker cannot
MayThrow(component) == component # "api"

\* performHealthCheck up to the first await checkFn()
PerformHealthCheck ==
    /\ health.pc = "idle"
    /\ health' = [IdleHealth EXCEPT !.pc = "checking", !.position = 1]
    /\ probed' = <<checks[1]>>
    /\ recovered' = <<>>
    /\ UNCHANGED <<cfgVars, engine, now, threshold, shVars, apiVars, rmVars, cmVars,
                   checks, autoRecovery>>

\* the awaited check settles; the loop goes on to the next check or
\* checkSystemHealth returns the report to performHealthCheck
ProbeSettles(outcome) ==
    /\ health.pc = "checking"
    /\ LET h == ProbeResult(health, checks[health.position], outcome)
       IN  IF health.position < Len(checks)
           THEN /\ health' = [h EXCEPT !.position = @ + 1]
                /\ probed' = Append(probed, checks[health.position + 1])
           ELSE /\ health' = [h EXCEPT !.position = 1,
                                !.pc = IF StartsRecovery(h)
                                       THEN "recovering" ELSE "done"]
                /\ probed' = probed
    /\ UNCHANGED <<cfgVars, engine, now, threshold, shVars, apiVars, rmVars, cmVars,
                   checks, autoRecovery, recovered>>

\* one pass of the loop of attemptSystemRecovery: recoverComponent for the
\* next component that is not healthy, with its try and its catch
RecoverNext(throws) ==
    /\ health.pc = "recovering"
    /\ LET targets == RecoveryTargets(health)
           component == targets[health.position]
       IN  /\ throws => MayThrow(component)
           /\ recovered' = Append(recovered, component)
           /\ circuitBreakers' = recoverComponent(component, circuitBreakers)
           /\ health' = [health EXCEPT
                  !.failed = IF throws THEN @ \cup {component} ELSE @,
                  !.position = @ + 1,
                  !.pc = IF health.position < Len(targets)
                         THEN "recovering" ELSE "done"]
    /\ UNCHANGED <<cfgVars, engine, now, threshold, shVars, rmVars, cmVars,
                   activeRetries, request, apiFetchCount, trialSuccesses,
                   apiFailureRun, checks, autoRecovery, probed>>

\* performHealthCheck has returned; the timer may call it again
HealthCheckReturns ==
    /\ health.pc = "done"
    /\ health' = IdleHealth
    /\ probed' = <<>>
    /\ recovered' = <<>>
    /\ UNCHANGED <<cfgVars, engine, now, threshold, shVars, apiVars, rmVars, cmVars,
                   checks, autoRecovery>>

\* recoverComponent('api', status) called for the APIManager in use
RecoverApi ==
    /\ Len(recovered) < MaxRecoveries
    /\ recovered' = Append(recovered, "api")
    /\ circuitBreakers' = recoverComponent("api", circuitBreakers)
    /\ UNCHANGED <<cfgVars, engine, now, threshold, shVars, rmVars, cmVars,
                   activeRetries, request, apiFetchCount, trialSuccesses,
                   apiFailureRun, checks, autoRecovery, health, probed>>

HmInit ==
    /\ checks = <<>>
    /\ autoRecovery = TRUE
    /\ health = IdleHealth
    /\ probed = <<>>
    /\ recovered = <<>>

\* ========================================================== CacheManager
CmKeys == {"k1", "k2"}
CmData == {"v1"}

\* a key without an entry in this.cache
NoItem == [absent |-> TRUE]

\* what get returns for a missing or expired entry
CmNull == "null"

\* JSON.stringify(cacheItem), the text kept by localStorage
Stringify(item) == <<"{", item.data, item.timestamp, item.ttl, "}">>

\* a text that JSON.parse rejects
Corrupted == <<"{", "v1">>

\* getItem answers null: no record under the key
NoRecord == <<>>

Parses(text) == Len(text) = 5

\* JSON.parse of a text that parses
Parse(text) == [data |-> text[2], timestamp |-> text[3], ttl |-> text[4]]

\* variant: an entry is still valid at the age ttl
isValidAtTtl(item) ==
    item.timestamp # 0 /\ now - item.timestamp <= item.ttl

\* isValid(cacheItem) for an item that exists
isValid(item) ==
    item.timestamp # 0 /\ now - item.timestamp < item.ttl

\* the keys of localStorage under the prefix
StoredKeys(storage) == {k \in CmKeys : storage[k] # NoRecord}

\* variant: delete(key) leaves the durable tier alone
deleteVolatileOnly(c, storage, key, remove) ==
    [cache |-> [c EXCEPT ![key] = NoItem], storage |-> storage,
     threw |-> FALSE]

\* delete(key): the tiers afterwards and whether removeItem threw; remove is
\* what this removeItem call does
delete(c, storage, key, remove) ==
    LET c1 == [c EXCEPT ![key] = NoItem]
    IN  IF ~storageAvailable
        THEN [cache |-> c1, storage |-> storage, threw |-> FALSE]
        ELSE IF remove = "throws"
        THEN [cache |-> c1, storage |-> storage, threw |-> TRUE]
        ELSE [cache |-> c1, storage |-> [storage EXCEPT ![key] = NoRecord],
              threw |-> FALSE]

\* variant: the second loop removes the records that do not parse only
RemovableCorruptedOnly(storage) ==
    {k \in StoredKeys(storage) : ~Parses(storage[k])}

\* the records the second loop of cleanup removes
Removable(storage) ==
    {k \in StoredKeys(storage) :
        ~Parses(storage[k]) \/ ~isValid(Parse(storage[k]))}

\* cleanup(): first is the expired key the forEach reaches first
cleanup(c, storage, remove, first) ==
    LET expired == {k \in CmKeys : c[k] # NoItem /\ ~isValid(c[k])}
        c1 == [k \in CmKeys |-> IF k \in expired THEN NoItem ELSE c[k]]
        s1 == [k \in CmKeys |-> IF k \in expired THEN NoRecord ELSE storage[k]]
    IN  IF ~storageAvailable
        THEN [cache |-> c1, storage |-> storage, threw |-> FALSE]
        ELSE IF remove = "throws" /\ expired # {}
        THEN delete(c, storage, first, remove)
        ELSE IF remove = "throws" /\ Removable(s1) # {}
        THEN [cache |-> c1, storage |-> s1, threw |-> TRUE]
        ELSE [cache |-> c1,
              storage |-> [k \in CmKeys |->
                              IF k \in Removable(s1) THEN NoRecord ELSE s1[k]],
              threw |-> FALSE]

\* set(key, data, ttl) with cacheItem = item; write1 and write2 are what the
\* first setItem and the one after the cleanup do
set(c, storage, key, item, write1, write2, remove, first) ==
    LET c1 == [c EXCEPT ![key] = item]
        written == [cache |-> c1,
                    storage |-> [storage EXCEPT ![key] = Stringify(item)],
                    threw |-> FALSE]
    IN  IF ~storageAvailable
        THEN [cache |-> c1, storage |-> storage, threw |-> FALSE]
        ELSE IF write1 = "ok" THEN written
        ELSE LET cleaned == cleanup(c1, storage, remove, first)
             IN  IF cleaned.threw THEN cleaned
                 ELSE IF write2 = "ok"
                 THEN [cleaned EXCEPT !.storage[key] = Stringify(item)]
                 ELSE cleaned

\* get(key): the value returned, if delete did not throw, and the tiers
get(c, storage, key, remove) ==
    IF c[key] = NoItem
    THEN [result |-> CmNull, cache |-> c, storage |-> storage, threw |-> FALSE]
    ELSE IF isValid(c[key])
    THEN [result |-> c[key].data, cache |-> c, storage |-> storage,
          threw |-> FALSE]
    ELSE LET deleted == delete(c, storage, key, remove)
         IN  [result |-> CmNull, cache |-> deleted.cache,
              storage |-> deleted.storage, threw |-> deleted.threw]

\* clear()
clear(c, storage, remove) ==
    LET c1 == [k \in CmKeys |-> NoItem]
    IN  IF ~storageAvailable \/ StoredKeys(storage) = {}
        THEN [cache |-> c1, storage |-> storage, threw |-> FALSE]
        ELSE IF remove = "throws"
        THEN [cache |-> c1, storage |-> storage, threw |-> TRUE]
        ELSE [cache |-> c1, storage |-> [k \in CmKeys |-> NoRecord],
              threw |-> FALSE]

\* the orders in which Object.keys may list the keys in S
Orders(S) ==
    {o \in [1..Cardinality(S) -> S] : \A i, j \in DOMAIN o : i # j => o[i] # o[j]}

\* the loop of loadFromStorage from position i of the keys; an exception of
\* JSON.parse or removeItem ends the loop in the catch of the method
RECURSIVE loadFromStorage(_, _, _, _, _)
loadFromStorage(c, storage, keys, i, remove) ==
    IF i > Len(keys) THEN [cache |-> c, storage |-> storage]
    ELSE LET text == storage[keys[i]]
         IN  IF ~Parses(text) THEN [cache |-> c, storage |-> storage]
             ELSE IF isValid(Parse(text))
             THEN loadFromStorage([c EXCEPT ![keys[i]] = Parse(text)],
                                  storage, keys, i + 1, remove)
             ELSE IF remove = "throws" THEN [cache |-> c, storage |-> storage]
             ELSE loadFromStorage(c, [storage EXCEPT ![keys[i]] = NoRecord],
                                  keys, i + 1, remove)

\* found: get met an entry under the key, cleanup met an expired entry in
\* this.cache
NoCall == [op |-> "none", key |-> "k1", result |-> CmNull, found |-> FALSE,
           threw |-> FALSE]

\* the ttl arguments of set
Ttls == {1, MaxTtl}

\* what setItem and removeItem can do; R is what removeItem can do in the
\* environment at hand
WriteOutcomes == {"ok", "throws"}

CmSet(key, data, ttl, write1, write2, remove, first) ==
    LET item == [data |-> data, timestamp |-> now, ttl |-> ttl]
        after == set(cmCache, cmStorage, key, item, write1, write2, remove, first)
    IN  /\ cmCache' = after.cache
        /\ cmStorage' = after.storage
        /\ cmCall' = [NoCall EXCEPT !.op = "set", !.key = key,
                                     !.threw = after.threw]
        /\ UNCHANGED <<cfgVars, engine, now, threshold, shVars, apiVars, rmVars, hmVars,
                       storageAvailable>>

CmGet(key, remove) ==
    LET after == get(cmCache, cmStorage, key, remove)
    IN  /\ cmCache' = after.cache
        /\ cmStorage' = after.storage
        /\ cmCall' = [NoCall EXCEPT !.op = "get", !.key = key,
                                     !.result = after.result,
                                     !.found = cmCache[key] # NoItem,
                                     !.threw = after.threw]
        /\ UNCHANGED <<cfgVars, engine, now, threshold, shVars, apiVars, rmVars, hmVars,
                       storageAvailable>>

CmDelete(key, remove) ==
    LET after == delete(cmCache, cmStorage, key, remove)
    IN  /\ cmCache' = after.cache
        /\ cmStorage' = after.storage
        /\ cmCall' = [NoCall EXCEPT !.op = "delete", !.key = key,
                                     !.threw = after.threw]
        /\ UNCHANGED <<cfgVars, engine, now, threshold, shVars, apiVars, rmVars, hmVars,
                       storageAvailable>>

\* cleanup(), called by the five-minute timer or by the recovery
CmCleanup(remove, first) ==
    LET after == cleanup(cmCache, cmStorage, remove, first)
    IN  /\ cmCache' = after.cache
        /\ cmStorage' = after.storage
        /\ cmCall' = [NoCall EXCEPT
               !.op = "cleanup",
               !.found = \E k \in CmKeys :
                            cmCache[k] # NoItem /\ ~isValid(cmCache[k]),
               !.threw = after.threw]
        /\ UNCHANGED <<cfgVars, engine, now, threshold, shVars, apiVars, rmVars, hmVars,
                       storageAvailable>>

CmClear(remove) ==
    LET after == clear(cmCache, cmStorage, remove)
    IN  /\ cmCache' = after.cache
        /\ cmStorage' = after.storage
        /\ cmCall' = [NoCall EXCEPT !.op = "clear", !.threw = after.threw]
        /\ UNCHANGED <<cfgVars, engine, now, threshold, shVars, apiVars, rmVars, hmVars,
                       storageAvailable>>

\* the page is loaded again: a new CacheManager, getStorageEngine and init()
\* with loadFromStorage
CmRestart(available, keys, remove) ==
    /\ keys \in Orders(StoredKeys(cmStorage))
    /\ storageAvailable' = available
    /\ LET after == IF available
                    THEN loadFromStorage([k \in CmKeys |-> NoItem], cmStorage,
                                         keys, 1, remove)
                    ELSE [cache |-> [k \in CmKeys |-> NoItem],
                          storage |-> cmStorage]
       IN  /\ cmCache' = after.cache
           /\ cmStorage' = after.storage
    /\ cmCall' = [NoCall EXCEPT !.op = "load"]
    /\ UNCHANGED <<cfgVars, engine, now, threshold, shVars, apiVars, rmVars, hmVars>>

\* a record of the durable tier is damaged from outside the CacheManager
CmCorrupt(key) ==
    /\ cmStorage[key] # NoRecord
    /\ cmStorage' = [cmStorage EXCEPT ![key] = Corrupted]
    /\ cmCall' = NoCall
    /\ UNCHANGED <<cfgVars, engine, now, threshold, shVars, apiVars, rmVars, hmVars,
                   cmCache, storageAvailable>>

CmInit ==
    /\ cmCache = [k \in CmKeys |-> NoItem]
    /\ cmStorage = [k \in CmKeys |-> NoRecord]
    /\ storageAvailable = TRUE
    /\ cmCall = NoCall

\* ========================================================= ConfigManager
\* the object of createDefaultConfig; of its settings only the one that is
\* read here, app_settings.max_results, is kept
DefaultConfig ==
    [API_KEY |-> "YOUR_YOUTUBE_API_KEY", app_settings |-> [max_results |-> 50]]

\* what a config.json on the server may hold
FileConfigs ==
    {[API_KEY |-> "key", app_settings |-> [max_results |-> n]] : n \in {25, 50}}

\* undefined: this.cache.get('main') without an entry, and what loadConfig
\* returns when it falls through
NoConfig == [absent |-> TRUE]

\* what await fetch('config.json') and await response.json() do: the fetch
\* rejects, the response is not OK, its body is not JSON, or it is a config
ConfigResponses ==
    {[kind |-> k] : k \in {"rejects", "notOk", "unparsable"}}
        \cup {[kind |-> "ok", config |-> c] : c \in FileConfigs}

Callbacks == {"cb1", "cb2"}

\* JSON.stringify(config); JSON.stringify(undefined) is undefined
ConfigText(config) ==
    IF config = NoConfig THEN <<"undefined">>
    ELSE <<config.API_KEY, config.app_settings.max_results>>

\* loadConfig(): what it does to the cache, what it returns, whether it throws
loadConfig(main, response) ==
    IF response.kind = "ok"
    THEN [threw |-> FALSE, main |-> response.config,
          returned |-> response.config]
    ELSE IF response.kind = "notOk"
    THEN [threw |-> FALSE, main |-> main, returned |-> NoConfig]
    ELSE [threw |-> TRUE, main |-> main, returned |-> NoConfig]

\* notifyWatchers('main', value): every callback of the Set is called
notifyWatchers(callbacks, value) == {<<cb, value>> : cb \in callbacks}

\* createDefaultConfig(): the default is cached, and saveConfig caches it
\* again and notifies the watchers
createDefaultConfig(callbacks) ==
    [main |-> DefaultConfig,
     notified |-> notifyWatchers(callbacks, DefaultConfig)]

\* get('app_settings.max_results'): <<value>>, or <<>> for the defaultValue
\* null when a key of the path is missing
get_max_results(main) ==
    IF "app_settings" \in DOMAIN main
    THEN IF "max_results" \in DOMAIN main.app_settings
         THEN <<main.app_settings.max_results>>
         ELSE <<>>
    ELSE <<>>

IdleConfigCall ==
    [op |-> "none", pc |-> "idle", response |-> [kind |-> "none"]]

\* an operation of ConfigManager starts: fetch('config.json') is issued
ConfigCallStarts(op) ==
    /\ cfgCall.pc # "fetching"
    /\ cfgCall' = [IdleConfigCall EXCEPT !.op = op, !.pc = "fetching"]
    /\ notified' = {}
    /\ UNCHANGED <<engine, now, threshold, shVars, apiVars, rmVars, hmVars,
                   cmVars, cfgCache, watchers, configWatcher>>

\* init() up to its first await
ConfigInit ==
    /\ configWatcher = "constructed"
    /\ ConfigCallStarts("init")

\* recover() up to its first await
ConfigRecover ==
    /\ configWatcher # "constructed"
    /\ ConfigCallStarts("recover")

\* the callback of the setInterval of setupConfigWatcher, up to its await
ConfigPoll ==
    /\ configWatcher = "polling"
    /\ ConfigCallStarts("poll")

\* the rest of init() once loadConfig has settled
InitSettles(response) ==
    LET loaded == loadConfig(cfgCache, response)
        default == createDefaultConfig(watchers)
    IN  IF loaded.threw
        THEN /\ cfgCache' = default.main
             /\ notified' = default.notified
             /\ configWatcher' = "none"
        ELSE /\ cfgCache' = loaded.main
             /\ notified' = {}
             /\ configWatcher' = "polling"

\* the rest of recover() once loadConfig has settled
RecoverSettles(response) ==
    LET loaded == loadConfig(cfgCache, response)
        default == createDefaultConfig(watchers)
    IN  /\ cfgCache' = IF loaded.threw THEN default.main ELSE loaded.main
        /\ notified' = IF loaded.threw THEN default.notified ELSE {}
        /\ configWatcher' = configWatcher

\* the rest of the poll: cachedConfig is read after loadConfig has written
\* the cache
PollSettles(response) ==
    LET loaded == loadConfig(cfgCache, response)
        currentConfig == loaded.returned
        cachedConfig == loaded.main
    IN  /\ cfgCache' = loaded.main
        /\ notified' =
               IF /\ ~loaded.threw
                  /\ ConfigText(currentConfig) # ConfigText(cachedConfig)
               THEN notifyWatchers(watchers, currentConfig)
               ELSE {}
        /\ configWatcher' = configWatcher

\* fetch('config.json') and response.json() settle, and the operation runs on
\* to its end
ConfigFetchSettles(response) ==
    /\ cfgCall.pc = "fetching"
    /\ cfgCall' = [cfgCall EXCEPT !.pc = "done", !.response = response]
    /\ IF cfgCall.op = "init" THEN InitSettles(response)
       ELSE IF cfgCall.op = "recover" THEN RecoverSettles(response)
       ELSE PollSettles(response)
    /\ UNCHANGED <<engine, now, threshold, shVars, apiVars, rmVars, hmVars,
                   cmVars, watchers>>

\* watch('main', callback)
Watch(callback) ==
    /\ callback \notin watchers
    /\ watchers' = watchers \cup {callback}
    /\ UNCHANGED <<engine, now, threshold, shVars, apiVars, rmVars, hmVars,
                   cmVars, cfgCache, configWatcher, cfgCall, notified>>

\* the function watch() returned is called
Unwatch(callback) ==
    /\ callback \in watchers
    /\ watchers' = watchers \ {callback}
    /\ UNCHANGED <<engine, now, threshold, shVars, apiVars, rmVars, hmVars,
                   cmVars, cfgCache, configWatcher, cfgCall, notified>>

CfgInit ==
    /\ cfgCache = NoConfig
    /\ watchers = {}
    /\ configWatcher = "constructed"
    /\ cfgCall = IdleConfigCall
    /\ notified = {}

ApiInit ==
    /\ circuitBreakers = [u \in BreakerKeys |-> NoBreaker]
    /\ activeRetries = [id \in OperationIds |-> NoRetry]
    /\ request = [r \in Callers |-> IdleRequest]
    /\ apiFetchCount = 0
    /\ trialSuccesses = [u \in Urls |-> 0]
    /\ apiFailureRun = [u \in Urls |-> 0]

ShInit ==
    /\ circuitBreaker = [state |-> "closed", failureCount |-> 0,
                         lastFailureTime |-> 0, nextAttemptTime |-> 0]
    /\ cache = [k \in CacheKeys |-> NoEntry]
    /\ call = [c \in Callers |-> IdleCall]
    /\ fetchCount = 0
    /\ halfOpenSuccesses = 0
    /\ failedCalls = 0
    /\ failureRun = 0

Init ==
    /\ engine \in {"SelfHealingService", "SelfHealingFramework"}
    /\ now = 0
    /\ threshold \in 1..MaxThreshold
    /\ ShInit
    /\ ApiInit
    /\ RmInit
    /\ HmInit
    /\ CmInit
    /\ CfgInit

\* the steps of SelfHealingService with the callers in C
ShSteps(C) ==
    \/ \E c \in C, u \in Urls, o \in Options : ResilientApiCall(c, u, o)
    \/ \E c \in C, o \in {"ok"} \cup ApiErrors : FetchSettles(c, o)
    \/ \E c \in C : WaitEnds(c)
    \/ \E c \in C : CallReturns(c)
    \/ CircuitBreakerMonitor
    \/ CleanupCache
    \/ Tick

\* the steps of APIManager with the callers in C
ApiSteps(C) ==
    \/ \E r \in C, u \in Urls : MakeRequest(r, u)
    \/ \E r \in C : ApiFetchSucceeds(r)
    \/ \E r \in C, e \in FetchErrors : ApiFetchFails(r, e)
    \/ \E r \in C : SleepEnds(r)
    \/ \E r \in C : RequestReturns(r)
    \/ ResetAllCircuitBreakers
    \/ Tick

\* Callers await one call before they issue the next (spec section 5): one
\* caller per engine.
Sequential == {"c1"}

ShNext == ShSteps(Sequential)
ApiNext == ApiSteps(Sequential)

\* a page runs one engine: self-healing.js (SelfHealingService) or the
\* framework (SelfHealingFramework with its APIManager)
Next ==
    \/ engine = "SelfHealingService" /\ ShNext
    \/ engine = "SelfHealingFramework" /\ ApiNext

Spec == Init /\ [][Next]_vars

\* each engine on its own
InitSH == Init /\ engine = "SelfHealingService"
InitAPI == Init /\ engine = "SelfHealingFramework"

SpecSH == InitSH /\ [][ShNext]_vars
SpecAPI == InitAPI /\ [][ApiNext]_vars

\* makeRequest calls that overlap: the callers of APIManager do not wait for
\* one another
Pair == {"c1", "c2"}

NextInterleaved ==
    \/ engine = "SelfHealingService" /\ ShNext
    \/ engine = "SelfHealingFramework" /\ ApiSteps(Pair)

SpecInterleaved == Init /\ [][NextInterleaved]_vars

\* both breakers under overlapping calls, the timer callbacks and the resets:
\* two callers of SelfHealingService on one request, two of APIManager
NextOverlapping ==
    \/ /\ engine = "SelfHealingService"
       /\ \/ \E c \in Pair : ResilientApiCall(c, "u1", EmptyOptions)
          \/ \E c \in Pair, o \in {"ok"} \cup ApiErrors : FetchSettles(c, o)
          \/ \E c \in Pair : WaitEnds(c)
          \/ \E c \in Pair : CallReturns(c)
          \/ CircuitBreakerMonitor
          \/ CleanupCache
          \/ Tick
    \/ engine = "SelfHealingFramework" /\ ApiSteps(Pair)

SpecOverlapping == Init /\ [][NextOverlapping]_vars

\* every caller at once on one URL of APIManager
NextTrials ==
    \/ \E r \in Callers : MakeRequest(r, "u1")
    \/ \E r \in Callers : ApiFetchSucceeds(r)
    \/ \E r \in Callers, e \in FetchErrors : ApiFetchFails(r, e)
    \/ \E r \in Callers : SleepEnds(r)
    \/ \E r \in Callers : RequestReturns(r)
    \/ ResetAllCircuitBreakers
    \/ Tick

SpecTrials == InitAPI /\ [][NextTrials]_vars

\* RetryManager used directly
InitRM ==
    /\ engine = "RetryManager"
    /\ now = 0
    /\ threshold = 1
    /\ ShInit
    /\ ApiInit
    /\ RmInit
    /\ HmInit
    /\ CmInit
    /\ CfgInit

RmNext ==
    \/ \E o \in RetryOptions : ExecuteWithRetry(o)
    \/ OperationResolves
    \/ \E e \in OperationErrors : OperationRejects(e)
    \/ SleepResolves
    \/ RetrySettled

SpecRM == InitRM /\ [][RmNext]_vars

\* executeWithRetry with a caller that may cancel between attempts
CancelNext ==
    \/ RmNext
    \/ CallerCancels

SpecCancel == InitRM /\ [][CancelNext]_vars

\* the health check of SelfHealingFramework, for every registration
InitHM ==
    /\ engine = "HealthMonitor"
    /\ now = 0
    /\ threshold = 1
    /\ ShInit
    /\ ApiInit
    /\ RmInit
    /\ checks \in Registrations
    /\ autoRecovery \in BOOLEAN
    /\ health = IdleHealth
    /\ probed = <<>>
    /\ recovered = <<>>
    /\ CmInit
    /\ CfgInit

HmNext ==
    \/ PerformHealthCheck
    \/ \E o \in ProbeOutcomes : ProbeSettles(o)
    \/ \E t \in BOOLEAN : RecoverNext(t)
    \/ HealthCheckReturns

SpecHM == InitHM /\ [][HmNext]_vars

\* CacheManager; Date.now() is not 0
InitCM ==
    /\ engine = "CacheManager"
    /\ now = 1
    /\ threshold = 1
    /\ ShInit
    /\ ApiInit
    /\ RmInit
    /\ HmInit
    /\ cmCache = [k \in CmKeys |-> NoItem]
    /\ cmStorage = [k \in CmKeys |-> NoRecord]
    /\ storageAvailable \in BOOLEAN
    /\ cmCall = NoCall
    /\ CfgInit

\* the steps of CacheManager over a durable tier whose removeItem does what
\* R lists
CmSteps(R) ==
    \/ \E k \in CmKeys, d \in CmData, ttl \in Ttls, w1 \in WriteOutcomes :
          \E w2 \in (IF w1 = "ok" THEN {"ok"} ELSE WriteOutcomes),
             r \in (IF w1 = "ok" THEN {"ok"} ELSE R) :
            \E f \in (IF r = "ok" THEN {k} ELSE CmKeys) :
                CmSet(k, d, ttl, w1, w2, r, f)
    \/ \E k \in CmKeys, r \in R : CmGet(k, r)
    \/ \E k \in CmKeys, r \in R : CmDelete(k, r)
    \/ \E r \in R : \E f \in (IF r = "ok" THEN {"k1"} ELSE CmKeys) :
          CmCleanup(r, f)
    \/ \E r \in R : CmClear(r)
    \/ \E a \in BOOLEAN, r \in R :
          \E o \in Orders(StoredKeys(cmStorage)) : CmRestart(a, o, r)
    \/ \E k \in CmKeys : CmCorrupt(k)
    \/ Tick

\* localStorage: setItem throws when the quota is exceeded, removeItem does
\* not throw
CmNext == CmSteps({"ok"})

SpecCM == InitCM /\ [][CmNext]_vars

\* a durable tier whose removeItem may throw as well
CmFaultyNext == CmSteps(WriteOutcomes)

SpecCMFaulty == InitCM /\ [][CmFaultyNext]_vars

\* ConfigManager on its own
InitCfg ==
    /\ engine = "ConfigManager"
    /\ now = 0
    /\ threshold = 1
    /\ ShInit
    /\ ApiInit
    /\ RmInit
    /\ HmInit
    /\ CmInit
    /\ CfgInit

CfgNext ==
    \/ ConfigInit
    \/ ConfigRecover
    \/ ConfigPoll
    \/ \E r \in ConfigResponses : ConfigFetchSettles(r)
    \/ \E cb \in Callbacks : Watch(cb)
    \/ \E cb \in Callbacks : Unwatch(cb)

SpecCfg == InitCfg /\ [][CfgNext]_vars

\* CacheManager over a durable tier that is available, never fails and is
\* written by the CacheManager alone
InitCMSound ==
    /\ engine = "CacheManager"
    /\ now = 1
    /\ threshold = 1
    /\ ShInit
    /\ ApiInit
    /\ RmInit
    /\ HmInit
    /\ CmInit
    /\ CfgInit

CmSoundNext ==
    \/ \E k \in CmKeys, d \in CmData, ttl \in Ttls :
          CmSet(k, d, ttl, "ok", "ok", "ok", k)
    \/ \E k \in CmKeys : CmGet(k, "ok")
    \/ \E k \in CmKeys : CmDelete(k, "ok")
    \/ CmCleanup("ok", "k1")
    \/ CmClear("ok")
    \/ \E o \in Orders(StoredKeys(cmStorage)) : CmRestart(TRUE, o, "ok")
    \/ Tick

SpecCMSound == InitCMSound /\ [][CmSoundNext]_vars

\* APIManager with recoverComponent('api') called between its steps
RecoveryNext ==
    \/ ApiNext
    \/ RecoverApi

SpecRecovery == InitAPI /\ [][RecoveryNext]_vars

\* ================================================================ claims
\* the tag a caller can read off a result: error.type, "none" without one
Tag(result) == IF "error" \in DOMAIN result THEN result.error.type ELSE "none"

\* the values a call that fetched, or hit a fresh entry, can return
FreshResults == {Payload(u, o) : u \in Urls, o \in Options}

\* C1: starting from a CLOSED breaker with failureCount 0, while fewer than
\* threshold failures have been recorded in a row the breaker is CLOSED, and
\* from the threshold-th recorded failure on it is OPEN (APIManager per URL,
\* and the breaker of SelfHealingService).
BreakerOpensAtThreshold ==
    /\ \A u \in Urls :
          (circuitBreakers[u] # NoBreaker /\ apiFailureRun[u] >= 0) =>
              circuitBreakers[u].state =
                  IF apiFailureRun[u] >= threshold THEN "open" ELSE "closed"
    /\ failureRun >= 0 =>
          circuitBreaker.state =
              IF failureRun >= threshold THEN "open" ELSE "closed"

OpenedByThresholdthFailure ==
    /\ threshold >= 2
    /\ \E u \in Urls : /\ circuitBreakers[u] # NoBreaker
                       /\ apiFailureRun[u] = threshold
                       /\ circuitBreakers[u].state = "open"

\* C2: a makeRequest(u) issued while the breaker of u is OPEN and
\* now - lastFailureTime <= circuitBreakerTimeout throws without a fetch and
\* leaves the breaker of u as it was.
RejectionLeavesBreaker ==
    [][\A r \in Callers, u \in Urls :
          ( /\ request[r].pc = "idle" /\ request'[r].pc # "idle"
            /\ request'[r].url = u
            /\ circuitBreakers[u] # NoBreaker
            /\ circuitBreakers[u].state = "open"
            /\ now - circuitBreakers[u].lastFailureTime <= CircuitBreakerTimeout )
          => /\ request'[r].pc = "done"
             /\ request'[r].outcome = "thrown: breaker open"
             /\ apiFetchCount' = apiFetchCount
             /\ circuitBreakers'[u] = circuitBreakers[u]]_vars

RejectedByOpenBreaker ==
    \E r \in Callers :
        /\ request[r].pc = "done"
        /\ request[r].outcome = "thrown: breaker open"
        /\ circuitBreakers[request[r].url].state = "open"
        /\ circuitBreakers[request[r].url].failureCount = threshold

\* C3: while the breaker of SelfHealingService is OPEN and now has not passed
\* nextAttemptTime, no step of resilientApiCall issues a fetch.
NoFetchWhileOpen ==
    [][( /\ circuitBreaker.state = "open"
         /\ now <= circuitBreaker.nextAttemptTime )
       => fetchCount' = fetchCount]_vars

\* C4: in a HALF_OPEN period of an APIManager breaker, the first success
\* leaves it HALF_OPEN, the second closes it with both counters 0, and a
\* recorded failure re-opens it.
HalfOpenTrial ==
    [][\A u \in Urls :
          (circuitBreakers[u] # NoBreaker /\ circuitBreakers[u].state = "half-open")
          => /\ (trialSuccesses[u] = 0 /\ trialSuccesses'[u] = 1)
                    => circuitBreakers'[u].state = "half-open"
             /\ (trialSuccesses[u] = 1 /\ trialSuccesses'[u] = 2)
                    => /\ circuitBreakers'[u].state = "closed"
                       /\ circuitBreakers'[u].failureCount = 0
                       /\ circuitBreakers'[u].successCount = 0
             /\ circuitBreakers'[u].failureCount > circuitBreakers[u].failureCount
                    => circuitBreakers'[u].state = "open"]_vars

MakeRequestNeverThrows ==
    \A r \in Callers :
        request[r].pc = "done" =>
            request[r].outcome \notin {"thrown: breaker open",
                                       "thrown: attempts failed"}

FreshEntryServed ==
    [][\A c \in Callers :
          LET key == getCacheKey(call'[c].url, call'[c].options)
          IN  ( /\ call[c].pc = "idle" /\ call'[c].pc # "idle"
                /\ cache[key] # NoEntry
                /\ now < cache[key].expires )
              => /\ call'[c].pc = "done"
                 /\ call'[c].result = cache[key].data
                 /\ fetchCount' = fetchCount]_vars

\* C9: a call that started with an expired entry for its request in the
\* cache, was admitted by the breaker and had every fetch fail returns that
\* entry's data.
StaleFallback ==
    \A c \in Callers :
        ( /\ call[c].pc = "done"
          /\ call[c].path = "exhausted"
          /\ call[c].expiredAtStart # Null )
        => call[c].result = call[c].expiredAtStart

AttemptsInOrder ==
    /\ [](retry.pc # "idle" =>
            /\ invocations = [i \in 1..Len(invocations) |-> i]
            /\ Len(invocations) <= retry.options.maxAttempts
            /\ retry.inFlight <= 1
            /\ (retry.pc = "sleeping" => retry.inFlight = 0)
            /\ (retry.pc = "done" /\ retry.outcome.kind = "result" =>
                    retry.outcome.value = OperationResult(Len(invocations))))
    /\ [][/\ (Len(invocations) > 0 /\ Len(invocations') > Len(invocations)
                 => retry.pc = "sleeping")
          /\ (retry.pc = "done" /\ retry'.pc # "idle"
                 => invocations' = invocations)]_vars

SucceededOnThirdAttempt ==
    /\ retry.pc = "done"
    /\ retry.outcome.kind = "result"
    /\ invocations = <<1, 2, 3>>
    /\ retry.options.maxAttempts = 4

\* C12: with jitter disabled the k-th sleep of a call lasts
\* baseDelay * backoffMultiplier^(k-1); a call sleeps once after each attempt
\* but the last, so a settled call of m attempts has slept m-1 times.
ExponentialBackoff ==
    retry.pc # "idle" =>
        /\ (~retry.options.jitter =>
               \A k \in 1..Len(sleeps) :
                   sleeps[k] = retry.options.baseDelay
                                 * Pow(retry.options.backoffMultiplier, k - 1))
        /\ Len(sleeps) = IF retry.pc = "sleeping" THEN Len(invocations)
                         ELSE Len(invocations) - 1

FourAttemptsDoubling ==
    /\ retry.pc = "done"
    /\ ~retry.options.jitter
    /\ retry.options.backoffMultiplier = 2
    /\ Len(invocations) = 4
    /\ sleeps = <<10, 20, 40>>

\* C13: when retryCondition is false for the error of the first attempt, the
\* call ends at once with an error, after one attempt and no sleep, and makes
\* no attempt and no sleep afterwards.
PredicateStopsFirstAttempt ==
    /\ [][retry.pc = "running" /\ retry.attempt = 1
            /\ retry'.pc # "done" /\ retry'.lastError # NoError
            => retry'.lastError \in retry.options.retryOn]_vars
    /\ [](retry.pc = "done" /\ retry.attempt = 1
            /\ retry.outcome.kind = "error"
            => invocations = <<1>> /\ sleeps = <<>>)
    /\ [][retry.pc = "done" /\ retry'.pc # "idle"
            => UNCHANGED <<invocations, sleeps>>]_vars

StoppedByPredicate ==
    /\ retry.pc = "done"
    /\ retry.outcome.kind = "error"
    /\ retry.options.maxAttempts > 1
    /\ retry.lastError \notin retry.options.retryOn
    /\ invocations = <<1>>
    /\ sleeps = <<>>

\* C14: once an executeWithRetry call given an operationId has settled, by
\* success or by failure, activeRetries has no entry for that operationId.
NoEntryOnceSettled ==
    retry.pc = "done" /\ retry.options.operationId # Undefined
        => activeRetries[retry.options.operationId] = NoRetry

\* C15: the error executeWithRetry raises reports the number of attempts that
\* were executed and the last underlying error.
ErrorReportsAttempts ==
    retry.pc = "done" /\ retry.outcome.kind = "error"
        => /\ retry.outcome.attempts = Len(invocations)
           /\ retry.outcome.lastError = retry.lastError

\* C16: in both pipelines a call whose first fetch is answered with a 4xx
\* status issues no second fetch: it is not left waiting for a retry.
ClientErrorsNotRetried ==
    /\ \A c \in Callers :
           ~(call[c].pc = "waiting" /\ call[c].attempt = 1
               /\ call[c].lastError = "HTTP 4xx")
    /\ \A r \in Callers :
           ~(request[r].pc = "sleeping" /\ request[r].attempt = 1
               /\ activeRetries[OperationId(request[r].url)].lastError
                      = "HTTP 4xx")

\* C17: in APIManager a request that succeeds while the breaker of its URL is
\* CLOSED leaves the breaker CLOSED with failureCount lowered by one, not
\* below 0; failureCount is never negative.
SuccessDecaysByOne ==
    /\ [](\A u \in Urls :
            circuitBreakers[u] # NoBreaker => circuitBreakers[u].failureCount >= 0)
    /\ [][\A r \in Callers :
            LET u == request[r].url
            IN  request[r].pc = "fetching" /\ request'[r].pc = "done"
                  /\ request'[r].outcome = "response"
                  /\ circuitBreakers[u].state = "closed"
                => /\ circuitBreakers'[u].state = "closed"
                   /\ circuitBreakers'[u].failureCount =
                          IF circuitBreakers[u].failureCount = 0 THEN 0
                          ELSE circuitBreakers[u].failureCount - 1]_vars

DecayedFromTwo ==
    \E r \in Callers :
        /\ request[r].pc = "done"
        /\ request[r].outcome = "response"
        /\ circuitBreakers[request[r].url].state = "closed"
        /\ circuitBreakers[request[r].url].failureCount = 1

\* C18 as claimed: a makeRequest on a CLOSED breaker with failureCount 0 whose
\* fetch fails on attempts 1 and 2 and succeeds on attempt 3 returns the
\* response and leaves the breaker CLOSED with failureCount 1.
ScenarioACountsAttempts ==
    [][\A r \in Callers :
        LET u == request[r].url
        IN  request[r].pc = "fetching" /\ request[r].attempt = RetryAttempts
              /\ request'[r].pc = "done" /\ request'[r].outcome = "response"
              /\ circuitBreakers[u].state = "closed"
              /\ circuitBreakers[u].failureCount = 0
            => /\ circuitBreakers'[u].state = "closed"
               /\ circuitBreakers'[u].failureCount = 1]_vars

\* C18, amended: ... and leaves the breaker CLOSED with failureCount 0, the
\* failed attempts of a call that succeeds being recorded nowhere.
ScenarioA ==
    [][\A r \in Callers :
        LET u == request[r].url
        IN  request[r].pc = "fetching" /\ request[r].attempt = RetryAttempts
              /\ request'[r].pc = "done" /\ request'[r].outcome = "response"
              /\ circuitBreakers[u].state = "closed"
              /\ circuitBreakers[u].failureCount = 0
            => /\ circuitBreakers'[u].state = "closed"
               /\ circuitBreakers'[u].failureCount = 0]_vars

SucceededOnLastAttempt ==
    \E r \in Callers :
        /\ request[r].pc = "done"
        /\ request[r].outcome = "response"
        /\ request[r].attempt = RetryAttempts
        /\ circuitBreakers[request[r].url].state = "closed"
        /\ circuitBreakers[request[r].url].failureCount = 0

\* C19: no recorded failure raises failureCount while the breaker is OPEN,
\* neither in APIManager with overlapping makeRequest calls on one URL nor in
\* the retry loop of SelfHealingService.resilientApiCall.
NoCountingWhileOpen ==
    [][/\ (circuitBreaker.state = "open"
             => circuitBreaker'.failureCount <= circuitBreaker.failureCount)
       /\ \A u \in Urls :
             circuitBreakers[u] # NoBreaker /\ circuitBreakers[u].state = "open"
               => circuitBreakers'[u].failureCount
                      <= circuitBreakers[u].failureCount]_vars

\* C20: the settling of a fetch for one URL leaves alone the breaker that is
\* consulted for every other URL, in both engines, so that it cannot make the
\* breaker reject a request to another URL.
PerUrlBreakers ==
    [][/\ \A c \in Callers :
             call[c].pc = "fetching" /\ call'[c].pc # "fetching"
               => \A u \in Urls \ {call[c].url} :
                      BreakerConsultedFor(circuitBreaker', u)
                          = BreakerConsultedFor(circuitBreaker, u)
       /\ \A r \in Callers :
             request[r].pc = "fetching" /\ request'[r].pc # "fetching"
               => \A u \in Urls \ {request[r].url} :
                      circuitBreakers'[u] = circuitBreakers[u]]_vars

\* C21: while the breaker of a URL is HALF_OPEN at most the trial threshold
\* (2) of the requests admitted for that URL have a fetch whose outcome is
\* not yet known, however many requests arrive.
BoundedTrials ==
    \A u \in Urls :
        circuitBreakers[u] # NoBreaker /\ circuitBreakers[u].state = "half-open"
            => Cardinality({r \in Callers : request[r].pc = "fetching"
                                              /\ request[r].url = u})
                   <= TrialThreshold

\* C22: when recoverComponent('api', status) has completed, every circuit
\* breaker the APIManager holds for a URL is CLOSED with failureCount 0 and
\* successCount 0.
RecoveryResetsBreakers ==
    [][Len(recovered') > Len(recovered) /\ recovered'[Len(recovered')] = "api"
        => \A u \in Urls :
               circuitBreakers'[u] # NoBreaker
                 => /\ circuitBreakers'[u].state = "closed"
                    /\ circuitBreakers'[u].failureCount = 0
                    /\ circuitBreakers'[u].successCount = 0]_vars

\* C23: the overall status of a finished checkSystemHealth is the worst
\* status among the components: unhealthy if any is unhealthy (returned or
\* thrown), else degraded if any is degraded, else healthy.
OverallIsWorst ==
    health.pc \in {"recovering", "done"} =>
        LET statuses == {health.components[checks[i]] : i \in DOMAIN checks}
        IN  health.overall =
                IF "unhealthy" \in statuses THEN "unhealthy"
                ELSE IF "degraded" \in statuses THEN "degraded"
                ELSE "healthy"

\* C24: checkSystemHealth invokes the registered checks one after the other,
\* each once, whatever the earlier ones did; in the finished report every
\* registered check has a component, and a check that threw has status
\* unhealthy.
ThrowingProbeIsolated ==
    /\ health.pc = "checking" => probed = SubSeq(checks, 1, health.position)
    /\ health.pc \in {"recovering", "done"} =>
          /\ probed = checks
          /\ \A i \in DOMAIN checks : health.components[checks[i]] # NoStatus
          /\ \A n \in health.threw : health.components[n] = "unhealthy"

FirstProbeThrew ==
    /\ health.pc \in {"recovering", "done"}
    /\ Len(checks) >= 2
    /\ checks[1] \in health.threw
    /\ probed = checks

\* C25: when performHealthCheck is over, recoverComponent has been called
\* once for each component whose status is not healthy and for no other, if
\* overall is not healthy and autoRecovery is on, even if a recovery action
\* threw; otherwise it has not been called at all.
RecoveryDispatch ==
    health.pc = "done" =>
        IF health.overall # "healthy" /\ autoRecovery
        THEN \A n \in CheckNames :
                Cardinality({i \in DOMAIN recovered : recovered[i] = n})
                  = IF health.components[n] \in {"degraded", "unhealthy"}
                    THEN 1 ELSE 0
        ELSE recovered = <<>>

RecoveredAfterFailedRecovery ==
    /\ health.pc = "done"
    /\ Len(recovered) >= 2
    /\ recovered[1] \in health.failed
    /\ \E n \in CheckNames : health.components[n] = "healthy"

\* C26: get(key) on an entry of the volatile tier returns its data, and
\* keeps it, while now - timestamp < ttl; from now - timestamp >= ttl on it
\* returns null and the entry is gone from the volatile and the durable tier.
GetFreshOrEvict ==
    [][cmCall'.op = "get" /\ now' = now =>
        LET k == cmCall'.key
            item == cmCache[k]
        IN  item # NoItem =>
              IF now - item.timestamp < item.ttl
              THEN cmCall'.result = item.data /\ cmCache'[k] = item
              ELSE /\ cmCall'.result = CmNull
                   /\ cmCache'[k] = NoItem
                   /\ (storageAvailable => cmStorage'[k] = NoRecord)]_vars

ExpiredEntryEvictedByGet ==
    /\ cmCall.op = "get"
    /\ cmCall.found
    /\ cmCall.result = CmNull
    /\ storageAvailable
    /\ cmCache[cmCall.key] = NoItem
    /\ cmStorage[cmCall.key] = NoRecord

\* C27: after the load at start-up no entry of the volatile tier is older
\* than the maximum durable age, whatever its ttl.
StalenessCeiling ==
    [][cmCall'.op = "load" /\ now' = now =>
        \A k \in CmKeys :
            cmCache'[k] # NoItem
              => now - cmCache'[k].timestamp <= MaxDurableAge]_vars

\* C28: loadFromStorage loads every record of the durable tier that parses
\* and has not expired, and drops every record that does not parse, wherever
\* the records stand among the keys.
CorruptedRecordIsolated ==
    [][cmCall'.op = "load" /\ now' = now /\ storageAvailable' =>
        \A k \in CmKeys :
            /\ ( /\ cmStorage[k] # NoRecord /\ Parses(cmStorage[k])
                 /\ now - Parse(cmStorage[k]).timestamp < Parse(cmStorage[k]).ttl )
               => cmCache'[k] = Parse(cmStorage[k])
            /\ ( cmStorage[k] # NoRecord /\ ~Parses(cmStorage[k]) )
               => cmStorage'[k] = NoRecord]_vars

\* C29: no call of set, delete, cleanup or clear ends by throwing, whatever
\* setItem and removeItem do.
DurableFailuresSwallowed ==
    cmCall.op \in {"set", "delete", "cleanup", "clear"} => ~cmCall.threw

NoAttemptAfterCancel ==
    [][retry.cancelled => Len(invocations') <= Len(invocations)]_vars

\* C32: when init() or recover() has completed with config.json unavailable
\* (the fetch rejected, or the answer was not OK), the cached 'main'
\* configuration is the built-in default and get('app_settings.max_results')
\* is 50.
DefaultConfigFallback ==
    ( /\ cfgCall.op \in {"init", "recover"}
      /\ cfgCall.pc = "done"
      /\ cfgCall.response.kind \in {"rejects", "notOk"} )
    => /\ cfgCache = DefaultConfig
       /\ get_max_results(cfgCache) = <<50>>

\* C33: when a poll loads a config.json that differs from the configuration
\* cached before the poll, every callback registered for 'main' is invoked
\* with the new configuration.
PollNotifiesWatchers ==
    [][( /\ cfgCall.op = "poll"
         /\ cfgCall.pc = "fetching"
         /\ cfgCall'.pc = "done"
         /\ cfgCall'.response.kind = "ok"
         /\ ConfigText(cfgCall'.response.config) # ConfigText(cfgCache) )
       => \A cb \in watchers :
              <<cb, cfgCall'.response.config>> \in notified']_vars

\* C34: a resilientApiCall served from a fresh cache entry leaves the state,
\* failureCount and nextAttemptTime of the breaker as they were before the
\* call.
CacheHitLeavesBreaker ==
    [][\A c \in Callers :
          ( call[c].pc = "idle" /\ call'[c].pc = "done"
            /\ call'[c].path = "hit" )
          => /\ circuitBreaker'.state = circuitBreaker.state
             /\ circuitBreaker'.failureCount = circuitBreaker.failureCount
             /\ circuitBreaker'.nextAttemptTime
                    = circuitBreaker.nextAttemptTime]_vars

\* C35: the non-stale getFromCache of a call's first pass returns the entry
\* exactly when now - timestamp < cacheExpiryTime; at now - timestamp =
\* cacheExpiryTime the read returns null.
FreshBelowTtl ==
    [][\A c \in Callers :
          ( call[c].pc = "idle" /\ call'[c].pc # "idle"
            /\ call'[c].path # "rejected" )
          => LET key == getCacheKey(call'[c].url, call'[c].options)
             IN  (call'[c].path = "hit")
                   <=> ( /\ cache[key] # NoEntry
                         /\ now - cache[key].timestamp < CacheExpiryTime )]_vars

\* C36: the breaker-opened event is dispatched, and circuitBreakerTrips
\* incremented, by exactly the steps that take the breaker of
\* SelfHealingService from CLOSED or HALF_OPEN into OPEN, and by no step
\* taken while it is OPEN.
OpenedOncePerTransition ==
    [][LET recorded == circuitBreaker'.failureCount
                           = circuitBreaker.failureCount + 1
           dispatched == recorded /\ DispatchesOpened(circuitBreaker)
           opens == circuitBreaker.state # "open"
                        /\ circuitBreaker'.state = "open"
       IN  dispatched <=> opens]_vars

\* C37: in APIManager the successCount of a breaker is 0 whenever the breaker
\* is not HALF_OPEN.
SuccessCountOnlyHalfOpen ==
    \A u \in BreakerKeys :
        ( circuitBreakers[u] # NoBreaker
          /\ circuitBreakers[u].state # "half-open" )
        => circuitBreakers[u].successCount = 0

\* C38: state and counter of a breaker agree: OPEN or HALF_OPEN implies
\* failureCount >= circuitBreakerThreshold, CLOSED implies
\* failureCount < circuitBreakerThreshold, for every breaker of APIManager
\* and for the breaker of SelfHealingService.
StateAgreesWithCounter ==
    /\ (circuitBreaker.state = "closed")
           <=> (circuitBreaker.failureCount < threshold)
    /\ \A u \in BreakerKeys :
           circuitBreakers[u] # NoBreaker
           => ( (circuitBreakers[u].state = "closed")
                    <=> (circuitBreakers[u].failureCount < threshold) )

TrialSucceededAboveThreshold ==
    /\ \E u \in Urls :
           /\ circuitBreakers[u] # NoBreaker
           /\ circuitBreakers[u].state = "half-open"
           /\ circuitBreakers[u].successCount = 1
           /\ circuitBreakers[u].failureCount > threshold
    /\ \E r \in Pair : request[r].pc # "idle"

\* C39: the breaker of SelfHealingService leaves OPEN for CLOSED only in a
\* call that passed the gate into HALF_OPEN and recorded a success, never
\* otherwise.
OpenClosesThroughHalfOpen ==
    [][( circuitBreaker.state = "open" /\ circuitBreaker'.state = "closed" )
       => \E c \in Callers :
              /\ call[c].pc = "idle"
              /\ call'[c].pc = "done"
              /\ call'[c].path = "hit"]_vars

====
